---- MODULE Spec2Model ----
(***************************************************************************)
(* Order placement with stock reservation (server.js, "Fixed & Secured"    *)
(* server: POST /api/orders and the admin product routes that share the    *)
(* Product collection with it), the admin order routes (list, status,      *)
(* delete) behind the token middleware, the customer's order listing, the  *)
(* category routes and admin registration.                                 *)
(*                                                                         *)
(* Every await of a handler is a scheduling point: an action is the        *)
(* datastore call that the await waits for together with the synchronous   *)
(* code that runs after it up to the next await or the response.           *)
(*                                                                         *)
(* Money is counted in thousandths of a currency unit, so that rounding to *)
(* two decimals (toFixed(2)) is rounding to a multiple of 10.              *)
(*                                                                         *)
(* server.js holds two copies of the server. The model is of the second    *)
(* ("Fixed & Secured", from line 797); the first copy's POST /api/orders   *)
(* handler is modelled apart, by the Legacy definitions and SpecLegacy.    *)
(* The datastore fails in SpecFault only, where a compensating update may  *)
(* throw; elsewhere an update or insert throws only where the handler or   *)
(* the schema makes it throw.                                              *)
(***************************************************************************)
EXTENDS Integers, Sequences, FiniteSets, TLC

VARIABLES
    products,   \* the Product collection: _id -> document
    orders,     \* the Order collection, in insertion order
    req,        \* the POST /api/orders requests: position and locals of each
    adm,        \* the admin request in flight
    adminOps,   \* admin requests made so far
    log,        \* history: the datastore calls each order request has made
    pre,        \* history: every product's stock when each request arrived
    stock0,     \* history: every product's stock in the initial state
    sreq,       \* the admin order requests (list, status, delete): position,
                \* locals and last response of each
    now,        \* the clock that Date.now() reads
    everDelivered, \* history: the _ids of the orders ever stored as delivered
    cats,       \* the Category collection: _id -> document
    creq,       \* the category request in flight
    admins,     \* the Admin collection, in insertion order
    reg         \* the POST /api/auth/register requests

statusVars == <<sreq, now, everDelivered>>
catVars == <<cats, creq>>
regVars == <<admins, reg>>

vars == <<products, orders, req, adm, adminOps, log, pre, stock0,
          statusVars, catVars, regVars>>

\* ------------------------------------------------------------------ bounds
MaxStock == 2
MaxLen == 2
MaxAdminOps == 1
MaxNow == 3
MaxCatOps == 1

\* ------------------------------------------------------- program constants
MaxQty == 1000
MaxItems == 50

ProdIds == {"A", "B"}
Reqs == {"r1", "r2"}
SReqs == {"s1", "s2"}
CatIds == {"c1", "c2", "c3"}
RegReqs == {"g1", "g2"}
CatName == [c1 |-> <<"c", "1">>, c2 |-> <<"c", "2">>]
\* prices in the Product collection, in thousandths: 1.255 and 2.000
Price == [A |-> 1255, B |-> 2000]

\* --------------------------------------------------------------- JS values
Undef == [t |-> "undef", s |-> <<>>]
Str(s) == [t |-> "str", s |-> s]
NumVal == [t |-> "num", s |-> <<>>]

\* !v for a request field
Truthy(v) == (v.t = "str" /\ v.s # <<>>) \/ v.t = "num"

IsSpace(c) == c = " "

RECURSIVE TrimStart(_)
TrimStart(s) ==
    IF s # <<>> /\ IsSpace(Head(s)) THEN TrimStart(Tail(s)) ELSE s

RECURSIVE TrimEnd(_)
TrimEnd(s) ==
    IF s # <<>> /\ IsSpace(s[Len(s)]) THEN TrimEnd(SubSeq(s, 1, Len(s) - 1)) ELSE s

\* String.prototype.trim
Trim(s) == TrimEnd(TrimStart(s))

LowerChar(c) == IF c = "A" THEN "a" ELSE c

\* String.prototype.toLowerCase
ToLowerCase(s) == [k \in 1..Len(s) |-> LowerChar(s[k])]

\* [^\s@]+ over s[a..b]
Plain(s, a, b) == a <= b /\ \A k \in a..b : s[k] # " " /\ s[k] # "@"

\* mutant: the pattern without the dotted domain, ^[^\s@]+@[^\s@]+$
EmailRegexNoDot(s) ==
    \E at \in 1..Len(s) :
        s[at] = "@" /\ Plain(s, 1, at - 1) /\ Plain(s, at + 1, Len(s))

\* EMAIL_REGEX.test(s):  ^[^\s@]+@[^\s@]+\.[^\s@]+$
EmailRegexTest(s) ==
    \E at \in 1..Len(s), dot \in 1..Len(s) :
        /\ s[at] = "@"
        /\ s[dot] = "."
        /\ at < dot
        /\ Plain(s, 1, at - 1)
        /\ Plain(s, at + 1, dot - 1)
        /\ Plain(s, dot + 1, Len(s))

\* JS numbers that a quantity can be: an integer, a non-integer (v + 1/2), NaN
Int_(n) == [k |-> "int", v |-> n]
Frac(n) == [k |-> "frac", v |-> n]
NaN == [k |-> "nan", v |-> 0]
RawUndef == [k |-> "undef", v |-> 0]

\* Number(x): undefined and a non-numeric string give NaN
ToNumber(raw) == IF raw.k = "undef" THEN NaN ELSE raw

\* n || 1
OrOne(n) == IF n.k = "nan" \/ (n.k = "int" /\ n.v = 0) THEN Int_(1) ELSE n

\* const qty = Number(item.quantity) || 1
QtyOf(item) == OrOne(ToNumber(item.quantity))

\* !Number.isInteger(qty) || qty < 1 || qty > 1000
QtyInvalid(q) == q.k # "int" \/ q.v < 1 \/ q.v > MaxQty

\* const prodId = item.id || item.productId
ProdIdOf(item) == IF item.id # "" THEN item.id ELSE item.productId

isValidObjectId(id) == id \in ProdIds \cup Reqs \cup CatIds

\* mutant: the total is stored as accumulated, without toFixed(2)
Round2None(x) == x

\* parseFloat(calculatedTotal.toFixed(2)), in thousandths
Round2(x) == ((x + 5) \div 10) * 10

\* ---------------------------------------------------------- request bodies
\* a line item as the client sends it; name and price are the client's own
Item(id, raw) ==
    [id |-> id, productId |-> "", quantity |-> raw, name |-> <<"x">>, price |-> 1]

Body(name, email, address, arr, list) ==
    [customerName |-> name, customerEmail |-> email, address |-> address,
     items |-> [arr |-> arr, list |-> list], totalAmount |-> 1,
     status |-> ""]

GoodName == Str(<<" ", "a">>)
GoodEmail == Str(<<"A", "@", "b", ".", "c">>)
GoodAddress == Str(<<"a", " ">>)

StdItems == {Item(p, Int_(q)) : p \in ProdIds, q \in {1, 2}}

OddItems ==
    {Item(p, raw) : p \in {"A"},
                    raw \in {RawUndef, NaN, Frac(1), Int_(0 - 1), Int_(0),
                             Int_(MaxQty), Int_(MaxQty + 1)}}
    \cup {Item("bad", Int_(1)), Item("", Int_(1)),
          [Item("", Int_(1)) EXCEPT !.productId = "A"]}

\* item lists of length n with at most one odd item
RECURSIVE ListsOf(_, _)
ListsOf(n, mayOdd) ==
    IF n = 0 THEN {<<>>}
    ELSE {<<x>> \o l : x \in StdItems, l \in ListsOf(n - 1, mayOdd)}
         \cup (IF mayOdd
               THEN {<<x>> \o l : x \in OddItems, l \in ListsOf(n - 1, FALSE)}
               ELSE {})

AllLists == UNION {ListsOf(n, TRUE) : n \in 1..MaxLen}

LongList == [k \in 1..(MaxItems + 1) |-> Item("A", Int_(1))]
FullList == [k \in 1..MaxItems |-> Item("B", Int_(MaxQty))]

Names ==
    {Undef, NumVal, Str(<<>>), Str(<<" ">>), Str(<<"a">>), GoodName}

Emails ==
    {Undef, Str(<<>>), GoodEmail, Str(<<"a", "b">>), Str(<<"a", "@", "b">>),
     Str(<<"a", " ", "@", "b", ".", "c">>), Str(<<"@", "b", ".", "c">>),
     Str(<<"a", "@", "b", ".">>)}

\* bodies of a request handled alone
SeqBodies ==
    {Body(GoodName, GoodEmail, GoodAddress, TRUE, l) :
        l \in AllLists \cup {<<>>, LongList, FullList}}
    \cup {Body(GoodName, GoodEmail, GoodAddress, FALSE, <<>>)}
    \cup {Body(n, e, a, TRUE, <<Item("A", Int_(1))>>) :
            n \in Names, e \in Emails, a \in Names}

\* bodies of requests that race
ConcBodies ==
    {Body(GoodName, GoodEmail, GoodAddress, TRUE, l) :
        l \in UNION {ListsOf(n, FALSE) : n \in 1..2}}
    \cup {Body(Str(<<" ">>), GoodEmail, GoodAddress, TRUE, <<Item("A", Int_(1))>>),
          Body(GoodName, GoodEmail, GoodAddress, TRUE,
               <<Item("A", Int_(1)), Item("bad", Int_(1))>>)}

\* bodies sent to the first copy's handler: integer quantities of 1 and more
LegacyBodies ==
    {Body(GoodName, GoodEmail, GoodAddress, TRUE, l) :
        l \in UNION {ListsOf(n, FALSE) : n \in 1..2}}
    \cup {Body(GoodName, GoodEmail, GoodAddress, TRUE,
               <<Item("A", Int_(1)), Item("bad", Int_(1))>>),
          Body(GoodName, Str(<<>>), GoodAddress, TRUE, <<Item("A", Int_(1))>>),
          Body(GoodName, GoodEmail, GoodAddress, TRUE, <<>>)}

\* bodies of requests that race while an admin edits products
AdminBodies ==
    {Body(GoodName, GoodEmail, GoodAddress, TRUE, l) :
        l \in {<<Item("A", Int_(1))>>, <<Item("A", Int_(2))>>,
              <<Item("A", Int_(1)), Item("B", Int_(1))>>,
              <<Item("B", Int_(1)), Item("A", Int_(2))>>}}

\* ------------------------------------------------------------------- state
NoProduct ==
    [st |-> "none", name |-> <<>>, price |-> 0, category |-> <<>>, stock |-> 0]
Live(name, price, category, stock) ==
    [st |-> "live", name |-> name, price |-> price, category |-> category,
     stock |-> stock]

NoCategory == [st |-> "none", name |-> <<>>]
LiveCategory(name) == [st |-> "live", name |-> name]

IdleReq ==
    [pc |-> "idle", body |-> Body(Undef, Undef, Undef, FALSE, <<>>), i |-> 0,
     decremented |-> <<>>, validatedItems |-> <<>>, calculatedTotal |-> 0,
     rb |-> 0, pending |-> "", status |-> 0, error |-> ""]

NoEdit ==
    [name |-> Undef, price |-> RawUndef, stock |-> RawUndef, category |-> Undef]

IdleAdmin == [pc |-> "idle", id |-> "", doc |-> NoProduct, edit |-> NoEdit, status |-> 0]

\* a request's bearer token: whether one was sent, whether jwt.verify accepts
\* it, and the payload it was signed over (generateToken is called with
\* { id, type: 'customer' } and { id, type: 'admin', role })
NoUser == [id |-> "", type |-> "", role |-> ""]
NoToken == [sent |-> FALSE, valid |-> FALSE, payload |-> NoUser]
BadToken ==
    [sent |-> TRUE, valid |-> FALSE,
     payload |-> [id |-> "a1", type |-> "admin", role |-> "superadmin"]]
CustomerToken ==
    [sent |-> TRUE, valid |-> TRUE,
     payload |-> [id |-> "k1", type |-> "customer", role |-> ""]]
OtherCustomerToken ==
    [sent |-> TRUE, valid |-> TRUE,
     payload |-> [id |-> "k2", type |-> "customer", role |-> ""]]
AdminToken ==
    [sent |-> TRUE, valid |-> TRUE,
     payload |-> [id |-> "a2", type |-> "admin", role |-> "admin"]]
SuperToken ==
    [sent |-> TRUE, valid |-> TRUE,
     payload |-> [id |-> "a1", type |-> "admin", role |-> "superadmin"]]
Tokens ==
    {NoToken, BadToken, CustomerToken, OtherCustomerToken, AdminToken, SuperToken}

\* the Customer collection: the routes modelled do not change it; the first
\* customer's email is the one GoodEmail is stored as
Customers ==
    [k1 |-> [email |-> <<"a", "@", "b", ".", "c">>],
     k2 |-> [email |-> <<"x", "@", "b", ".", "c">>]]

NoOrder ==
    [req |-> "", customerName |-> <<>>, customerEmail |-> <<>>, address |-> <<>>,
     items |-> <<>>, totalAmount |-> 0, status |-> "", updatedAt |-> 0]

\* an admin order request: op is the route, token what the caller sent, user
\* req.user, id and target the :id and the body's status, doc the order read,
\* at the Date.now() it took, status the response code and list the ids of
\* the orders a listing returned
IdleSReq ==
    [pc |-> "idle", op |-> "", token |-> NoToken, user |-> NoUser, id |-> "",
     target |-> "", doc |-> NoOrder, at |-> 0, status |-> 0, list |-> <<>>]

\* a category request: ops counts the category requests made so far
IdleCReq ==
    [pc |-> "idle", id |-> "", doc |-> NoCategory, name |-> Undef, status |-> 0,
     ops |-> 0]

\* a registration request: token and body as sent, count and role the locals
NoRegBody == [username |-> Undef, email |-> Undef, password |-> Undef]

IdleReg ==
    [pc |-> "idle", token |-> NoToken, body |-> NoRegBody, count |-> 0,
     role |-> "", status |-> 0]

StockOf == [p \in ProdIds |-> products[p].stock]

\* the collections when the requests modelled arrive: product A with any stock,
\* product B not created yet or with a stock in stocksB; two categories, the
\* products in the first, and an _id no category has yet; no order and no
\* admin yet
InitWith(stocksB) ==
    /\ \E sa \in 0..MaxStock, b \in {NoProduct} \cup
                {Live(<<"n", "b">>, Price.B, CatName.c1, s) : s \in stocksB} :
          products = [p \in ProdIds |->
                        IF p = "A" THEN Live(<<"n", "a">>, Price.A, CatName.c1, sa) ELSE b]
    /\ orders = <<>>
    /\ req = [r \in Reqs |-> IdleReq]
    /\ log = [r \in Reqs |-> <<>>]
    /\ pre = [r \in Reqs |-> [p \in ProdIds |-> 0]]
    /\ adm = IdleAdmin
    /\ adminOps = 0
    /\ stock0 = StockOf
    /\ sreq = [s \in SReqs |-> IdleSReq]
    /\ now = 0
    /\ everDelivered = {}
    /\ cats = [c \in CatIds |->
                IF c \in DOMAIN CatName THEN LiveCategory(CatName[c]) ELSE NoCategory]
    /\ creq = IdleCReq
    /\ admins = <<>>
    /\ reg = [g \in RegReqs |-> IdleReg]

Init == InitWith(0..MaxStock)

InitAdmin == InitWith({1})

\* ------------------------------------------------- POST /api/orders (fixed)
\* return res.status(s).json({ error })
Respond(rq, s, e) == [rq EXCEPT !.pc = "done", !.status = s, !.error = e]

\* mutant: the error is returned without the rollback loop
StartRollbackNoUndo(rq, e) == Respond(rq, 400, e)

\* for (const d of decremented) await Product.findByIdAndUpdate(...);
\* return res.status(400).json(...)
StartRollback(rq, e) ==
    IF rq.decremented = <<>> THEN Respond(rq, 400, e)
    ELSE [rq EXCEPT !.pc = "rollback", !.rb = 1, !.pending = e]

\* top of the for loop for item rq.i, up to the next await
LoopHead(rq) ==
    IF rq.i > Len(rq.body.items.list) THEN [rq EXCEPT !.pc = "create"]
    ELSE LET item == rq.body.items.list[rq.i] IN
         IF QtyInvalid(QtyOf(item)) THEN StartRollback(rq, "quantity")
         ELSE IF ~isValidObjectId(ProdIdOf(item)) THEN StartRollback(rq, "productId")
         ELSE [rq EXCEPT !.pc = "update"]

\* request-level validation, then the first loop head
Validate(rq) ==
    LET b == rq.body IN
    IF ~Truthy(b.customerName) \/ ~Truthy(b.customerEmail) \/ ~Truthy(b.address)
    THEN Respond(rq, 400, "required")
    ELSE IF ~(b.customerEmail.t = "str" /\ EmailRegexTest(b.customerEmail.s))
    THEN Respond(rq, 400, "email")
    ELSE IF ~b.items.arr \/ Len(b.items.list) = 0
    THEN Respond(rq, 400, "items")
    ELSE IF Len(b.items.list) > MaxItems
    THEN Respond(rq, 400, "tooMany")
    ELSE LoopHead([rq EXCEPT !.i = 1])

PlaceOrder(r, body) ==
    /\ req[r].pc = "idle"
    /\ req' = [req EXCEPT ![r] = Validate([req[r] EXCEPT !.body = body])]
    /\ pre' = [pre EXCEPT ![r] = StockOf]
    /\ UNCHANGED <<products, orders, log, adm, adminOps, stock0,
                 statusVars, catVars, regVars>>

LogEntry(op, id, qty, ok, p) ==
    [op |-> op, id |-> id, qty |-> qty, ok |-> ok, name |-> p.name, price |-> p.price]

\* mutant: the filter without stock: {$gte: qty}
GuardMatchesAnyStock(p, qty) == p.st = "live"

\* Product.findOneAndUpdate({_id, stock: {$gte: qty}}, {$inc: {stock: -qty}}, {new: true})
GuardMatches(p, qty) == p.st = "live" /\ p.stock >= qty

\* the loop body after a successful guarded update
Reserved(rq, id, qty, updated) ==
    LoopHead([rq EXCEPT
        !.decremented = Append(@, [id |-> id, qty |-> qty]),
        !.calculatedTotal = @ + updated.price * qty,
        !.validatedItems = Append(@, [productId |-> id, name |-> updated.name,
                                      quantity |-> qty, price |-> updated.price]),
        !.i = @ + 1])

\* mutant: the item is pushed to decremented[] before the result is tested
NotReservedPushed(rq, id, qty) ==
    StartRollback([rq EXCEPT !.decremented = Append(@, [id |-> id, qty |-> qty])], "stock")

\* mutant: a failed guarded update skips the item and the loop goes on
NotReservedGoesOn(rq, id, qty) == LoopHead([rq EXCEPT !.i = @ + 1])

\* mutant: a product that does not exist is answered 404 at once
NotReservedNotFound(rq, id, qty) ==
    IF products[id].st = "live" THEN StartRollback(rq, "stock")
    ELSE Respond(rq, 404, "notFound")

\* if (!updated): roll back, then 400 "Insufficient stock"
NotReserved(rq, id, qty) == StartRollback(rq, "stock")

GuardedUpdate(r) ==
    /\ req[r].pc = "update"
    /\ LET rq == req[r]
           item == rq.body.items.list[rq.i]
           id == ProdIdOf(item)
           qty == QtyOf(item).v
           p == products[id]
       IN IF GuardMatches(p, qty)
          THEN LET updated == [p EXCEPT !.stock = @ - qty] IN
               /\ products' = [products EXCEPT ![id] = updated]
               /\ req' = [req EXCEPT ![r] = Reserved(rq, id, qty, updated)]
               /\ log' = [log EXCEPT ![r] = Append(@, LogEntry("dec", id, qty, TRUE, updated))]
          ELSE /\ products' = products
               /\ req' = [req EXCEPT ![r] = NotReserved(rq, id, qty)]
               /\ log' = [log EXCEPT ![r] = Append(@, LogEntry("dec", id, qty, FALSE, p))]
    /\ UNCHANGED <<orders, pre, adm, adminOps, stock0,
                 statusVars, catVars, regVars>>

\* mutant: the compensating update adds nothing
IncStockNothing(p, qty) == p

\* Product.findByIdAndUpdate(d.id, {$inc: {stock: d.qty}})
IncStock(p, qty) == IF p.st = "live" THEN [p EXCEPT !.stock = @ + qty] ELSE p

\* mutant: the rollback loop is not followed by return
AfterCompensateFallThrough(rq) ==
    IF rq.rb = Len(rq.decremented) THEN [rq EXCEPT !.pc = "create"]
    ELSE [rq EXCEPT !.rb = @ + 1]

\* mutant: the rollback loop never advances
AfterCompensateStuck(rq) == rq

\* the rollback loop after one compensating update
AfterCompensate(rq) ==
    IF rq.rb = Len(rq.decremented) THEN Respond(rq, 400, rq.pending)
    ELSE [rq EXCEPT !.rb = @ + 1]

\* mutant: the loop walks decremented[] from its end
NextUndoReversed(rq) == rq.decremented[Len(rq.decremented) + 1 - rq.rb]

\* for (const d of decremented): the element the loop is at
NextUndo(rq) == rq.decremented[rq.rb]

Compensate(r) ==
    /\ req[r].pc = "rollback"
    /\ LET rq == req[r]
           d == NextUndo(rq)
       IN /\ products' = [products EXCEPT ![d.id] = IncStock(@, d.qty)]
          /\ req' = [req EXCEPT ![r] = AfterCompensate(rq)]
          /\ log' = [log EXCEPT ![r] =
                        Append(@, LogEntry("inc", d.id, d.qty,
                                           products[d.id].st = "live", products[d.id]))]
    /\ UNCHANGED <<orders, pre, adm, adminOps, stock0,
                 statusVars, catVars, regVars>>

\* a compensating findByIdAndUpdate that rejects (the datastore is down, the
\* call times out): the await throws inside the try block, the loop is left
\* and the catch block answers 500
CompensateThrows(r) ==
    /\ req[r].pc = "rollback"
    /\ LET rq == req[r]
           d == NextUndo(rq)
       IN /\ req' = [req EXCEPT ![r] = Respond(rq, 500, "Failed to create order")]
          /\ log' = [log EXCEPT ![r] =
                        Append(@, LogEntry("inc", d.id, d.qty, FALSE, NoProduct))]
    /\ UNCHANGED <<products, orders, pre, adm, adminOps, stock0,
                 statusVars, catVars, regVars>>

\* customerName.trim() / address.trim() throw on a non-string; the schema's
\* required validator rejects an empty string
OrderCreateThrows(b) ==
    \/ b.customerName.t # "str" \/ b.address.t # "str"
    \/ Trim(b.customerName.s) = <<>> \/ Trim(b.address.s) = <<>>

\* mutant: the status of the request body is stored
OrderDocBodyStatus(r, rq) ==
    [req |-> r,
     customerName |-> Trim(rq.body.customerName.s),
     customerEmail |-> Trim(ToLowerCase(rq.body.customerEmail.s)),
     address |-> Trim(rq.body.address.s),
     items |-> rq.validatedItems,
     totalAmount |-> Round2(rq.calculatedTotal),
     status |-> rq.body.status, updatedAt |-> 0]

\* the document Order.create is given, with the schema's default status
OrderDoc(r, rq) ==
    [req |-> r,
     customerName |-> Trim(rq.body.customerName.s),
     customerEmail |-> Trim(ToLowerCase(rq.body.customerEmail.s)),
     address |-> Trim(rq.body.address.s),
     items |-> rq.validatedItems,
     totalAmount |-> Round2(rq.calculatedTotal),
     status |-> "pending", updatedAt |-> 0]

CreateOrder(r) ==
    /\ req[r].pc = "create"
    /\ IF OrderCreateThrows(req[r].body)
       THEN /\ req' = [req EXCEPT ![r] = Respond(@, 500, "Failed to create order")]
            /\ UNCHANGED <<orders, log>>
       ELSE /\ orders' = Append(orders, OrderDoc(r, req[r]))
            /\ log' = [log EXCEPT ![r] = Append(@, LogEntry("insert", "", 0, TRUE, NoProduct))]
            /\ req' = [req EXCEPT ![r] = Respond(@, 201, "")]
    /\ UNCHANGED <<products, pre, adm, adminOps, stock0,
                 statusVars, catVars, regVars>>

\* ------------------------------- POST /api/orders (first copy in server.js)
\* the handler of the same route that precedes the fixed one in the file: no
\* email, item-count or quantity check; prodId is item.id; the order stores the
\* client's own items and totalAmount
LegacyLoopHead(rq) ==
    IF rq.i > Len(rq.body.items.list) THEN [rq EXCEPT !.pc = "legacyCreate"]
    ELSE IF ~isValidObjectId(rq.body.items.list[rq.i].id)
    THEN StartRollback(rq, "productId")
    ELSE [rq EXCEPT !.pc = "legacyUpdate"]

LegacyValidate(rq) ==
    LET b == rq.body IN
    IF ~Truthy(b.customerName) \/ ~Truthy(b.customerEmail) \/ ~Truthy(b.address)
    THEN Respond(rq, 400, "required")
    ELSE IF ~b.items.arr \/ Len(b.items.list) = 0
    THEN Respond(rq, 400, "items")
    ELSE LegacyLoopHead([rq EXCEPT !.i = 1])

LegacyPlaceOrder(r, body) ==
    /\ req[r].pc = "idle"
    /\ req' = [req EXCEPT ![r] = LegacyValidate([req[r] EXCEPT !.body = body])]
    /\ pre' = [pre EXCEPT ![r] = StockOf]
    /\ UNCHANGED <<products, orders, log, adm, adminOps, stock0,
                 statusVars, catVars, regVars>>

LegacyGuardedUpdate(r) ==
    /\ req[r].pc = "legacyUpdate"
    /\ LET rq == req[r]
           item == rq.body.items.list[rq.i]
           id == item.id
           qty == QtyOf(item).v
           p == products[id]
       IN IF GuardMatches(p, qty)
          THEN LET updated == [p EXCEPT !.stock = @ - qty] IN
               /\ products' = [products EXCEPT ![id] = updated]
               /\ req' = [req EXCEPT ![r] = LegacyLoopHead([rq EXCEPT
                              !.decremented = Append(@, [id |-> id, qty |-> qty]),
                              !.i = @ + 1])]
               /\ log' = [log EXCEPT ![r] = Append(@, LogEntry("dec", id, qty, TRUE, updated))]
          ELSE /\ products' = products
               /\ req' = [req EXCEPT ![r] = StartRollback(rq, "stock")]
               /\ log' = [log EXCEPT ![r] = Append(@, LogEntry("dec", id, qty, FALSE, p))]
    /\ UNCHANGED <<orders, pre, adm, adminOps, stock0,
                 statusVars, catVars, regVars>>

\* the client's line item as stored (items: Array), seen through the fields of
\* an order line
ClientLine(item) ==
    [productId |-> item.id, name |-> item.name, quantity |-> item.quantity.v,
     price |-> item.price]

LegacyOrderDoc(r, rq) ==
    [req |-> r,
     customerName |-> rq.body.customerName.s,
     customerEmail |-> rq.body.customerEmail.s,
     address |-> rq.body.address.s,
     items |-> [k \in 1..Len(rq.body.items.list) |-> ClientLine(rq.body.items.list[k])],
     totalAmount |-> rq.body.totalAmount,
     status |-> "pending", updatedAt |-> 0]

LegacyCreateOrder(r) ==
    /\ req[r].pc = "legacyCreate"
    /\ orders' = Append(orders, LegacyOrderDoc(r, req[r]))
    /\ log' = [log EXCEPT ![r] = Append(@, LogEntry("insert", "", 0, TRUE, NoProduct))]
    /\ req' = [req EXCEPT ![r] = Respond(@, 201, "")]
    /\ UNCHANGED <<products, pre, adm, adminOps, stock0,
                 statusVars, catVars, regVars>>

\* ------------------------------------------------------ admin product routes
\* parseInt(x, 10) and parseFloat(x) on the values modelled here: a fraction
\* is truncated by parseInt; undefined and a non-numeric string give NaN
ParseInt(raw) == IF raw.k \in {"int", "frac"} THEN Int_(raw.v) ELSE NaN

ParseFloat(raw) == IF raw.k \in {"int", "frac"} THEN raw ELSE NaN

\* isNaN(n) || n < 0
NaNOrNegative(n) == n.k = "nan" \/ n.v < 0

\* Category.findOne({ name }): a category's name is unique
CategoryExists(name) ==
    name.t = "str" /\ \E c \in CatIds : cats[c].st = "live" /\ cats[c].name = name.s

\* POST /api/products up to await Product.create(): the request's checks, then
\* Category.findOne and the check of its result
CreateProduct(id, name, price, category, stock) ==
    /\ adm.pc = "idle"
    /\ adminOps < MaxAdminOps
    /\ products[id].st = "none"
    /\ adminOps' = adminOps + 1
    /\ IF ~Truthy(name) \/ price.k = "undef" \/ ~Truthy(category)
       THEN adm' = [IdleAdmin EXCEPT !.status = 400]
       ELSE IF NaNOrNegative(ParseFloat(price)) \/ NaNOrNegative(ParseInt(stock))
       THEN adm' = [IdleAdmin EXCEPT !.status = 400]
       ELSE IF ~CategoryExists(category)
       THEN adm' = [IdleAdmin EXCEPT !.status = 400]
       ELSE adm' = [pc |-> "insert", id |-> id, doc |-> NoProduct,
                    edit |-> [name |-> name, price |-> price, stock |-> stock,
                              category |-> category],
                    status |-> 0]
    /\ UNCHANGED <<products, orders, req, log, pre, stock0,
                 statusVars, catVars, regVars>>

\* Product.create({ name: name.trim(), price, category, stock }) and the response
CreateProductInsert ==
    /\ adm.pc = "insert"
    /\ LET e == adm.edit IN
       IF e.name.t # "str" \/ Trim(e.name.s) = <<>>
       THEN /\ adm' = [IdleAdmin EXCEPT !.status = 500]
            /\ products' = products
       ELSE /\ adm' = [IdleAdmin EXCEPT !.status = 201]
            /\ products' = [products EXCEPT ![adm.id] =
                  Live(Trim(e.name.s), ParseFloat(e.price).v, e.category.s,
                       ParseInt(e.stock).v)]
    /\ UNCHANGED <<orders, req, log, pre, adminOps, stock0,
                 statusVars, catVars, regVars>>

\* the edits of PUT /api/products/:id applied to the document read
ApplyEdit(doc, edit) ==
    [doc EXCEPT
        !.name = IF edit.name.t = "undef" THEN @ ELSE Trim(edit.name.s),
        !.price = IF edit.price.k = "undef" THEN @ ELSE ParseFloat(edit.price).v,
        !.stock = IF edit.stock.k = "undef" THEN @ ELSE ParseInt(edit.stock).v,
        !.category = IF edit.category.t = "undef" THEN @ ELSE edit.category.s]

EditInvalid(edit) ==
    \/ edit.price.k # "undef" /\ NaNOrNegative(ParseFloat(edit.price))
    \/ edit.stock.k # "undef" /\ NaNOrNegative(ParseInt(edit.stock))

\* PUT /api/products/:id up to its next await: findById, edits, checks; a
\* request that sets the category awaits Category.findOne before the save
UpdateProductRead(id, edit) ==
    /\ adm.pc = "idle"
    /\ adminOps < MaxAdminOps
    /\ adminOps' = adminOps + 1
    /\ IF products[id].st # "live"
       THEN adm' = [IdleAdmin EXCEPT !.status = 404]
       ELSE IF EditInvalid(edit)
       THEN adm' = [IdleAdmin EXCEPT !.status = 400]
       ELSE adm' = [pc |-> IF edit.category.t = "undef" THEN "save" ELSE "category",
                    id |-> id, doc |-> products[id], edit |-> edit, status |-> 0]
    /\ UNCHANGED <<products, orders, req, log, pre, stock0,
                 statusVars, catVars, regVars>>

\* FIX #13: Category.findOne({ name: category }) and the check of its result
UpdateProductCategory ==
    /\ adm.pc = "category"
    /\ IF CategoryExists(adm.edit.category)
       THEN adm' = [adm EXCEPT !.pc = "save"]
       ELSE adm' = [IdleAdmin EXCEPT !.status = 400]
    /\ UNCHANGED <<products, orders, req, log, pre, adminOps, stock0,
                 statusVars, catVars, regVars>>

\* productSchema, checked by save(): name and category required, price and
\* stock min 0
SchemaRejects(doc) ==
    doc.name = <<>> \/ doc.category = <<>> \/ doc.price < 0 \/ doc.stock < 0

\* product.save(): validates the document, then $set of the paths whose value
\* the handler changed, on the stored document with this _id
SaveProduct(stored, doc, new) ==
    [stored EXCEPT
        !.name = IF new.name # doc.name THEN new.name ELSE @,
        !.price = IF new.price # doc.price THEN new.price ELSE @,
        !.stock = IF new.stock # doc.stock THEN new.stock ELSE @,
        !.category = IF new.category # doc.category THEN new.category ELSE @]

UpdateProductSave ==
    /\ adm.pc = "save"
    /\ LET new == ApplyEdit(adm.doc, adm.edit) IN
       IF SchemaRejects(new) \/ products[adm.id].st # "live"
       THEN /\ adm' = [IdleAdmin EXCEPT !.status = 500]
            /\ products' = products
       ELSE /\ adm' = [IdleAdmin EXCEPT !.status = 200]
            /\ products' = [products EXCEPT ![adm.id] = SaveProduct(@, adm.doc, new)]
    /\ UNCHANGED <<orders, req, log, pre, adminOps, stock0,
                 statusVars, catVars, regVars>>

\* DELETE /api/products/:id: findById, then product.deleteOne()
DeleteProduct(id) ==
    /\ adm.pc = "idle"
    /\ adminOps < MaxAdminOps
    /\ adminOps' = adminOps + 1
    /\ IF products[id].st # "live"
       THEN /\ adm' = [IdleAdmin EXCEPT !.status = 404]
            /\ products' = products
       ELSE /\ adm' = [IdleAdmin EXCEPT !.status = 200]
            /\ products' = [products EXCEPT ![id] = [NoProduct EXCEPT !.st = "gone"]]
    /\ UNCHANGED <<orders, req, log, pre, stock0,
                 statusVars, catVars, regVars>>

RawStocks == {Int_(0 - 1), Int_(0), Int_(MaxStock), NaN}

Edits ==
    {[NoEdit EXCEPT !.stock = s] : s \in RawStocks}
    \cup {[NoEdit EXCEPT !.price = Int_(Price.B), !.name = Str(<<"n", "2">>)],
          [NoEdit EXCEPT !.price = Int_(0 - 1)],
          [NoEdit EXCEPT !.name = Str(<<" ">>)]}

\* ----------------------------------------------------------- category routes
\* the requests modelled are an admin's: they pass authenticateToken and
\* requireAdmin
CRespond(code) == [IdleCReq EXCEPT !.status = code, !.ops = creq.ops + 1]

\* another category holds this name: the unique index rejects the write
NameTaken(id, name) ==
    \E c \in CatIds \ {id} : cats[c].st = "live" /\ cats[c].name = name

\* POST /api/categories: the check of the name, then Category.create
CreateCategory(name) ==
    /\ creq.pc = "idle"
    /\ creq.ops < MaxCatOps
    /\ IF name.t = "undef" THEN creq' = CRespond(400) /\ cats' = cats
       ELSE IF name.t # "str" THEN creq' = CRespond(500) /\ cats' = cats
       ELSE IF Trim(name.s) = <<>> THEN creq' = CRespond(400) /\ cats' = cats
       ELSE IF NameTaken("", Trim(name.s)) THEN creq' = CRespond(400) /\ cats' = cats
       ELSE IF \A c \in CatIds : cats[c].st # "none"
       THEN creq' = CRespond(500) /\ cats' = cats
       ELSE /\ creq' = CRespond(201)
            /\ cats' = [cats EXCEPT ![CHOOSE c \in CatIds : cats[c].st = "none"] =
                            LiveCategory(Trim(name.s))]
    /\ UNCHANGED <<products, orders, req, adm, adminOps, log, pre, stock0,
                 statusVars, regVars>>

\* PUT /api/categories/:id up to await category.save()
UpdateCategoryRead(id, name) ==
    /\ creq.pc = "idle"
    /\ creq.ops < MaxCatOps
    /\ IF ~isValidObjectId(id) THEN creq' = CRespond(400)
       ELSE IF cats[id].st # "live" THEN creq' = CRespond(404)
       ELSE IF Truthy(name) /\ name.t # "str" THEN creq' = CRespond(500)
       ELSE creq' = [creq EXCEPT !.pc = "save", !.id = id, !.doc = cats[id],
                                 !.name = name, !.status = 0]
    /\ UNCHANGED <<products, orders, req, adm, adminOps, log, pre, stock0,
                 statusVars, cats, regVars>>

\* category.save(): the name is written if the handler changed it; the save
\* throws if the document is gone, the name is empty or another category has it
UpdateCategorySave ==
    /\ creq.pc = "save"
    /\ LET new == IF Truthy(creq.name) THEN Trim(creq.name.s) ELSE creq.doc.name IN
       IF cats[creq.id].st # "live" \/ new = <<>>
       THEN creq' = CRespond(500) /\ cats' = cats
       ELSE IF new # creq.doc.name /\ NameTaken(creq.id, new)
       THEN creq' = CRespond(400) /\ cats' = cats
       ELSE /\ creq' = CRespond(200)
            /\ cats' = [cats EXCEPT ![creq.id].name =
                            IF new # creq.doc.name THEN new ELSE @]
    /\ UNCHANGED <<products, orders, req, adm, adminOps, log, pre, stock0,
                 statusVars, regVars>>

\* DELETE /api/categories/:id up to await Product.countDocuments(...)
DeleteCategoryRead(id) ==
    /\ creq.pc = "idle"
    /\ creq.ops < MaxCatOps
    /\ IF ~isValidObjectId(id) THEN creq' = CRespond(400)
       ELSE IF cats[id].st # "live" THEN creq' = CRespond(404)
       ELSE creq' = [creq EXCEPT !.pc = "count", !.id = id, !.doc = cats[id],
                                 !.status = 0]
    /\ UNCHANGED <<products, orders, req, adm, adminOps, log, pre, stock0,
                 statusVars, cats, regVars>>

\* Product.countDocuments({ category: name })
ProductCount(name) ==
    Cardinality({p \in ProdIds :
                    products[p].st = "live" /\ products[p].category = name})

\* the count of the category's products and the check of it
DeleteCategoryCount ==
    /\ creq.pc = "count"
    /\ IF ProductCount(creq.doc.name) > 0
       THEN creq' = CRespond(400)
       ELSE creq' = [creq EXCEPT !.pc = "delete"]
    /\ UNCHANGED <<products, orders, req, adm, adminOps, log, pre, stock0,
                 statusVars, cats, regVars>>

\* category.deleteOne() and the response
DeleteCategoryDelete ==
    /\ creq.pc = "delete"
    /\ cats' = [cats EXCEPT ![creq.id] = [NoCategory EXCEPT !.st = "gone"]]
    /\ creq' = CRespond(200)
    /\ UNCHANGED <<products, orders, req, adm, adminOps, log, pre, stock0,
                 statusVars, regVars>>

\* -------------------------------------------------------- admin registration
RegRespond(rq, code) == [rq EXCEPT !.pc = "idle", !.status = code]

\* the token check made when an admin exists already: the status of the
\* refusal, 0 where the request goes on
RegisterGate(token) ==
    IF ~token.sent THEN 401
    ELSE IF ~token.valid THEN 403
    ELSE IF token.payload.type # "admin" \/ token.payload.role # "superadmin" THEN 403
    ELSE 0

\* password.length < 8
MinPassword == 8

\* POST /api/auth/register up to await bcrypt.hash(...): the checks of the
\* body, Admin.countDocuments, the token check and the choice of the role
Register(g, token, body) ==
    /\ reg[g].pc = "idle"
    /\ LET rq == [IdleReg EXCEPT !.token = token, !.body = body]
           count == Len(admins)
       IN IF ~Truthy(body.username) \/ ~Truthy(body.email) \/ ~Truthy(body.password)
          THEN reg' = [reg EXCEPT ![g] = RegRespond(rq, 400)]
          ELSE IF ~EmailRegexTest(body.email.s) \/ Len(body.password.s) < MinPassword
          THEN reg' = [reg EXCEPT ![g] = RegRespond(rq, 400)]
          ELSE IF count > 0 /\ RegisterGate(token) # 0
          THEN reg' = [reg EXCEPT ![g] = RegRespond(rq, RegisterGate(token))]
          ELSE reg' = [reg EXCEPT ![g] =
                   [rq EXCEPT !.pc = "hash", !.count = count,
                              !.role = IF count = 0 THEN "superadmin" ELSE "admin"]]
    /\ UNCHANGED <<products, orders, req, adm, adminOps, log, pre, stock0,
                 statusVars, catVars, admins>>

\* bcrypt.hash(password, 12) resolves; Admin.create is called
RegisterHash(g) ==
    /\ reg[g].pc = "hash"
    /\ reg' = [reg EXCEPT ![g].pc = "create"]
    /\ UNCHANGED <<products, orders, req, adm, adminOps, log, pre, stock0,
                 statusVars, catVars, admins>>

\* the document Admin.create stores
AdminDoc(rq) ==
    [username |-> Trim(rq.body.username.s),
     email |-> Trim(ToLowerCase(rq.body.email.s)),
     role |-> rq.role]

\* the unique indexes on username and email reject the document (error 11000)
AdminDuplicate(doc) ==
    \E k \in 1..Len(admins) :
        admins[k].username = doc.username \/ admins[k].email = doc.email

\* Admin.create and the response
RegisterCreate(g) ==
    /\ reg[g].pc = "create"
    /\ IF AdminDuplicate(AdminDoc(reg[g]))
       THEN /\ reg' = [reg EXCEPT ![g] = RegRespond(@, 400)]
            /\ admins' = admins
       ELSE /\ reg' = [reg EXCEPT ![g] = RegRespond(@, 201)]
            /\ admins' = Append(admins, AdminDoc(reg[g]))
    /\ UNCHANGED <<products, orders, req, adm, adminOps, log, pre, stock0,
                 statusVars, catVars>>

\* -------------------------------------------------------- admin order routes
\* the middleware: the status of the response it sends, 0 where it calls next()
authenticateToken(token) ==
    IF ~token.sent THEN 401 ELSE IF ~token.valid THEN 403 ELSE 0

requireAdmin(user) == IF user.type # "admin" THEN 403 ELSE 0

\* mutant: the role is not looked at
requireSuperAdminAnyRole(user) == 0

requireSuperAdmin(user) == IF user.role # "superadmin" THEN 403 ELSE 0

requireCustomer(user) == IF user.type # "customer" THEN 403 ELSE 0

\* authenticateToken, requireCustomer
CustomerGate(token) ==
    IF authenticateToken(token) # 0 THEN authenticateToken(token)
    ELSE requireCustomer(token.payload)

\* authenticateToken, requireAdmin
AdminGate(token) ==
    IF authenticateToken(token) # 0 THEN authenticateToken(token)
    ELSE requireAdmin(token.payload)

\* authenticateToken, requireAdmin, requireSuperAdmin
SuperGate(token) ==
    IF AdminGate(token) # 0 THEN AdminGate(token)
    ELSE requireSuperAdmin(token.payload)

\* const validStatuses = ['pending', 'confirmed', 'delivered', 'cancelled']
validStatuses == {"pending", "confirmed", "delivered", "cancelled"}

\* the positions in the collection of the order with this _id
OrderAt(id) == {k \in 1..Len(orders) : orders[k].req = id}

\* Order.findById(id); NoOrder for null
FindOrder(id) ==
    IF OrderAt(id) = {} THEN NoOrder ELSE orders[CHOOSE k \in OrderAt(id) : TRUE]

\* an admin order request as it arrives
SRequest(op, token, id, status) ==
    [IdleSReq EXCEPT !.op = op, !.token = token, !.id = id, !.target = status]

\* res.status(code).json(...): the request is kept with its response
SRespond(rq, code) == [rq EXCEPT !.pc = "idle", !.status = code]

\* mutant: the guard on delivered -> pending is missing
RevertsDeliveredNever(order, status) == FALSE

\* FIX #16: order.status === 'delivered' && status === 'pending'
RevertsDelivered(order, status) ==
    order.status = "delivered" /\ status = "pending"

\* mutant: any status the body carries is taken
StatusInvalidNever(status) == FALSE

\* !status || !validStatuses.includes(status)
StatusInvalid(status) == status = "" \/ status \notin validStatuses

\* PUT /api/orders/:id/status up to await order.save(): the middleware, the
\* checks, Order.findById, the guard, and the assignments to the document read
UpdateStatus(s, token, id, status) ==
    /\ sreq[s].pc = "idle"
    /\ now < MaxNow
    /\ LET order == FindOrder(id) IN
       IF AdminGate(token) # 0
       THEN /\ sreq' = [sreq EXCEPT ![s] = SRespond(SRequest("status", token, id, status), AdminGate(token))]
            /\ now' = now
       ELSE IF ~isValidObjectId(id) \/ StatusInvalid(status)
       THEN /\ sreq' = [sreq EXCEPT ![s] = SRespond(SRequest("status", token, id, status), 400)]
            /\ now' = now
       ELSE IF order = NoOrder
       THEN /\ sreq' = [sreq EXCEPT ![s] = SRespond(SRequest("status", token, id, status), 404)]
            /\ now' = now
       ELSE IF RevertsDelivered(order, status)
       THEN /\ sreq' = [sreq EXCEPT ![s] = SRespond(SRequest("status", token, id, status), 400)]
            /\ now' = now
       ELSE /\ sreq' = [sreq EXCEPT ![s] =
                    [SRequest("status", token, id, status) EXCEPT
                        !.pc = "save", !.user = token.payload, !.doc = order,
                        !.at = now + 1]]
            /\ now' = now + 1
    /\ UNCHANGED <<products, orders, req, adm, adminOps, log, pre, stock0,
                 everDelivered, catVars, regVars>>

\* mutant: the save refreshes the lines' names from the products
SaveOrderRefreshed(stored, doc, status, at) ==
    [stored EXCEPT
        !.status = status,
        !.updatedAt = at,
        !.items = [k \in 1..Len(stored.items) |->
                     [stored.items[k] EXCEPT
                        !.name = products[stored.items[k].productId].name]]]

\* order.save(): $set of the paths whose value the handler changed, on the
\* stored document with this _id; it throws if that document is gone
SaveOrder(stored, doc, status, at) ==
    [stored EXCEPT
        !.status = IF status # doc.status THEN status ELSE @,
        !.updatedAt = IF at # doc.updatedAt THEN at ELSE @]

SaveStatus(s) ==
    /\ sreq[s].pc = "save"
    /\ LET rq == sreq[s] IN
       IF OrderAt(rq.id) = {}
       THEN /\ sreq' = [sreq EXCEPT ![s] =
                    SRespond(SRequest("status", rq.token, rq.id, rq.target), 500)]
            /\ orders' = orders
            /\ everDelivered' = everDelivered
       ELSE /\ sreq' = [sreq EXCEPT ![s] =
                    SRespond(SRequest("status", rq.token, rq.id, rq.target), 200)]
            /\ orders' = [k \in 1..Len(orders) |->
                  IF k \in OrderAt(rq.id)
                  THEN SaveOrder(orders[k], rq.doc, rq.target, rq.at)
                  ELSE orders[k]]
            /\ everDelivered' =
                  IF SaveOrder(FindOrder(rq.id), rq.doc, rq.target, rq.at).status
                        = "delivered"
                  THEN everDelivered \cup {rq.id} ELSE everDelivered
    /\ UNCHANGED <<products, req, adm, adminOps, log, pre, stock0, now,
                 catVars, regVars>>

\* mutant: deleting an order gives the quantity of its first line back
DeleteOrderRestocks(s, token, id) ==
    /\ sreq[s].pc = "idle"
    /\ LET code == IF SuperGate(token) # 0 THEN SuperGate(token)
                   ELSE IF ~isValidObjectId(id) THEN 400
                   ELSE IF OrderAt(id) = {} THEN 404 ELSE 200
       IN /\ sreq' = [sreq EXCEPT ![s] = SRespond(SRequest("delete", token, id, ""), code)]
          /\ orders' = IF code = 200 THEN SelectSeq(orders, LAMBDA o : o.req # id)
                       ELSE orders
          /\ products' = IF code = 200
                         THEN LET line == FindOrder(id).items[1] IN
                              [products EXCEPT ![line.productId] =
                                  IncStock(@, line.quantity)]
                         ELSE products
    /\ UNCHANGED <<req, adm, adminOps, log, pre, stock0, now,
                 everDelivered, catVars, regVars>>

\* DELETE /api/orders/:id: the middleware, then Order.findByIdAndDelete
DeleteOrder(s, token, id) ==
    /\ sreq[s].pc = "idle"
    /\ IF SuperGate(token) # 0
       THEN /\ sreq' = [sreq EXCEPT ![s] = SRespond(SRequest("delete", token, id, ""), SuperGate(token))]
            /\ orders' = orders
       ELSE IF ~isValidObjectId(id)
       THEN /\ sreq' = [sreq EXCEPT ![s] = SRespond(SRequest("delete", token, id, ""), 400)]
            /\ orders' = orders
       ELSE IF OrderAt(id) = {}
       THEN /\ sreq' = [sreq EXCEPT ![s] = SRespond(SRequest("delete", token, id, ""), 404)]
            /\ orders' = orders
       ELSE /\ sreq' = [sreq EXCEPT ![s] = SRespond(SRequest("delete", token, id, ""), 200)]
            /\ orders' = SelectSeq(orders, LAMBDA o : o.req # id)
    /\ UNCHANGED <<products, req, adm, adminOps, log, pre, stock0, now,
                 everDelivered, catVars, regVars>>

\* the _ids of the orders, newest first (sort({ createdAt: -1 }))
NewestFirst == [k \in 1..Len(orders) |-> orders[Len(orders) + 1 - k].req]

\* GET /api/orders: the middleware, then Order.find()
ListOrders(s, token) ==
    /\ sreq[s].pc = "idle"
    /\ IF AdminGate(token) # 0
       THEN sreq' = [sreq EXCEPT ![s] = SRespond(SRequest("list", token, "", ""), AdminGate(token))]
       ELSE sreq' = [sreq EXCEPT ![s] =
                [SRespond(SRequest("list", token, "", ""), 200) EXCEPT !.list = NewestFirst]]
    /\ UNCHANGED <<products, orders, req, adm, adminOps, log, pre, stock0, now,
                 everDelivered, catVars, regVars>>

\* GET /api/customers/orders up to await Order.find(...): the middleware and
\* Customer.findById
ListCustomerOrders(s, token) ==
    /\ sreq[s].pc = "idle"
    /\ IF CustomerGate(token) # 0
       THEN sreq' = [sreq EXCEPT ![s] =
                SRespond(SRequest("mine", token, "", ""), CustomerGate(token))]
       ELSE IF token.payload.id \notin DOMAIN Customers
       THEN sreq' = [sreq EXCEPT ![s] = SRespond(SRequest("mine", token, "", ""), 404)]
       ELSE sreq' = [sreq EXCEPT ![s] =
                [SRequest("mine", token, "", "") EXCEPT
                    !.pc = "find", !.user = token.payload]]
    /\ UNCHANGED <<products, orders, req, adm, adminOps, log, pre, stock0, now,
                 everDelivered, catVars, regVars>>

\* Order.find({ customerEmail: email }).sort({ createdAt: -1 }), as _ids
OrdersOfEmail(email) ==
    LET own == SelectSeq(orders, LAMBDA o : o.customerEmail = email)
    IN [k \in 1..Len(own) |-> own[Len(own) + 1 - k].req]

\* the customer's orders and the response
FindCustomerOrders(s) ==
    /\ sreq[s].pc = "find"
    /\ sreq' = [sreq EXCEPT ![s] =
            [SRespond(SRequest("mine", sreq[s].token, "", ""), 200) EXCEPT
                !.list = OrdersOfEmail(Customers[sreq[s].user.id].email)]]
    /\ UNCHANGED <<products, orders, req, adm, adminOps, log, pre, stock0, now,
                 everDelivered, catVars, regVars>>

\* ----------------------------------------------------------- specifications
\* one order request, nothing else running
NextSeq ==
    \/ \E body \in SeqBodies : PlaceOrder("r1", body)
    \/ GuardedUpdate("r1")
    \/ Compensate("r1")
    \/ CreateOrder("r1")

SpecSeq == Init /\ [][NextSeq]_vars

\* order requests racing each other, no admin activity
NextOrders ==
    \/ \E r \in Reqs, body \in ConcBodies : PlaceOrder(r, body)
    \/ \E r \in Reqs : GuardedUpdate(r)
    \/ \E r \in Reqs : Compensate(r)
    \/ \E r \in Reqs : CreateOrder(r)

SpecOrders == Init /\ [][NextOrders]_vars

\* order requests racing each other and an admin editing products
Next ==
    \/ \E r \in Reqs, body \in AdminBodies : PlaceOrder(r, body)
    \/ \E r \in Reqs : GuardedUpdate(r)
    \/ \E r \in Reqs : Compensate(r)
    \/ \E r \in Reqs : CreateOrder(r)
    \/ \E n \in {Str(<<"n", "b">>), Str(<<" ">>), Undef}, s \in RawStocks :
          CreateProduct("B", n, Int_(Price.B), Str(CatName.c1), s)
    \/ CreateProductInsert
    \/ \E id \in ProdIds, e \in Edits : UpdateProductRead(id, e)
    \/ UpdateProductSave
    \/ \E id \in ProdIds : DeleteProduct(id)

Spec == InitAdmin /\ [][Next]_vars

\* one order request, then an admin changing the status of orders, deleting
\* and listing them, one request at a time
StatusBodies ==
    {[Body(GoodName, GoodEmail, GoodAddress, TRUE, <<Item("A", Int_(1))>>)
        EXCEPT !.status = st] : st \in {"", "delivered", "shipped"}}

StatusTargets == validStatuses \cup {"", "shipped"}

NextStatus ==
    \/ \E body \in StatusBodies : PlaceOrder("r1", body)
    \/ GuardedUpdate("r1")
    \/ CreateOrder("r1")
    \/ \E token \in {AdminToken, NoToken}, id \in Reqs \cup {"bad"},
          status \in StatusTargets : UpdateStatus("s1", token, id, status)
    \/ SaveStatus("s1")
    \/ \E token \in {SuperToken, AdminToken}, id \in Reqs : DeleteOrder("s1", token, id)
    \/ \E token \in {AdminToken, NoToken} : ListOrders("s1", token)

SpecStatus == InitAdmin /\ [][NextStatus]_vars

\* an admin creating, moving and deleting products while another admin
\* creates, renames and deletes categories
CatEdits ==
    {[NoEdit EXCEPT !.category = Str(c)] : c \in {CatName.c2, <<"z">>, <<>>}}

CatInputs == {Str(CatName.c1), Str(<<"n", "c">>), Str(<<" ">>), Undef}

NextCat ==
    \/ \E c \in {CatName.c1, CatName.c2} :
          CreateProduct("B", Str(<<"n", "b">>), Int_(Price.B), Str(c), Int_(1))
    \/ CreateProductInsert
    \/ \E id \in ProdIds, e \in CatEdits : UpdateProductRead(id, e)
    \/ UpdateProductCategory
    \/ UpdateProductSave
    \/ \E id \in ProdIds : DeleteProduct(id)
    \/ \E name \in CatInputs : CreateCategory(name)
    \/ \E id \in CatIds, name \in CatInputs : UpdateCategoryRead(id, name)
    \/ UpdateCategorySave
    \/ \E id \in CatIds \cup {"bad"} : DeleteCategoryRead(id)
    \/ DeleteCategoryCount
    \/ DeleteCategoryDelete

SpecCat == InitAdmin /\ [][NextCat]_vars

\* orders placed while admins edit and delete products, rename and delete
\* categories, change the status of orders and delete them
HistoryBodies ==
    {Body(GoodName, GoodEmail, GoodAddress, TRUE, l) :
        l \in {<<Item("A", Int_(1))>>, <<Item("A", Int_(1)), Item("B", Int_(1))>>}}

OneLineBodies ==
    {Body(GoodName, GoodEmail, GoodAddress, TRUE, <<Item("A", Int_(1))>>)}

HistoryEdits ==
    {[NoEdit EXCEPT !.price = Int_(Price.B), !.name = Str(<<"n", "2">>)]}

InitHistory ==
    /\ InitAdmin
    /\ products.A.stock = MaxStock
    /\ products.B.st = "live"

NextHistory ==
    \/ \E body \in HistoryBodies : PlaceOrder("r1", body)
    \/ \E body \in OneLineBodies : PlaceOrder("r2", body)
    \/ \E r \in Reqs : GuardedUpdate(r)
    \/ \E r \in Reqs : Compensate(r)
    \/ \E r \in Reqs : CreateOrder(r)
    \/ \E id \in ProdIds, e \in HistoryEdits : UpdateProductRead(id, e)
    \/ UpdateProductSave
    \/ \E id \in ProdIds : DeleteProduct(id)
    \/ UpdateCategoryRead("c1", Str(<<"n", "c">>))
    \/ UpdateCategorySave
    \/ DeleteCategoryRead("c2")
    \/ DeleteCategoryCount
    \/ DeleteCategoryDelete
    \/ UpdateStatus("s1", AdminToken, "r1", "delivered")
    \/ SaveStatus("s1")
    \/ DeleteOrder("s1", SuperToken, "r1")

SpecHistory == InitHistory /\ [][NextHistory]_vars

\* an order placed while callers with every kind of token, two at a time, try
\* to change its status, delete it and list the orders
NextAuth ==
    \/ \E body \in OneLineBodies : PlaceOrder("r1", body)
    \/ GuardedUpdate("r1")
    \/ CreateOrder("r1")
    \/ \E s \in SReqs, token \in Tokens, status \in {"delivered", "cancelled"} :
          UpdateStatus(s, token, "r1", status)
    \/ \E s \in SReqs : SaveStatus(s)
    \/ \E s \in SReqs, token \in Tokens : DeleteOrder(s, token, "r1")
    \/ \E s \in SReqs, token \in Tokens : ListOrders(s, token)
    \/ \E s \in SReqs, token \in Tokens : ListCustomerOrders(s, token)
    \/ \E s \in SReqs : FindCustomerOrders(s)

SpecAuth == InitHistory /\ [][NextAuth]_vars

\* admin registrations racing each other
RegBody(u, pw) ==
    [username |-> u,
     email |-> IF u.t = "str" THEN Str(u.s \o <<"@", "B", ".", "c">>) ELSE Undef,
     password |-> Str(pw)]

RegBodies ==
    {RegBody(Str(<<"u">>), <<"1", "2", "3", "4", "5", "6", "7", "8">>),
     RegBody(Str(<<"v">>), <<"1", "2", "3", "4", "5", "6", "7", "8">>),
     RegBody(Str(<<"v">>), <<"1", "2", "3", "4", "5", "6", "7">>),
     RegBody(Undef, <<"1", "2", "3", "4", "5", "6", "7", "8">>)}

NextReg ==
    \/ \E g \in RegReqs, token \in Tokens, body \in RegBodies : Register(g, token, body)
    \/ \E g \in RegReqs : RegisterHash(g)
    \/ \E g \in RegReqs : RegisterCreate(g)

SpecReg == InitHistory /\ [][NextReg]_vars

\* racing requests of three lines, most of which fail at the second or third
RollbackBodies ==
    {Body(GoodName, GoodEmail, GoodAddress, TRUE, l) :
        l \in {<<Item("A", Int_(1)), Item("B", Int_(1)), Item("bad", Int_(1))>>,
               <<Item("B", Int_(1)), Item("A", Int_(1)), Item("A", Int_(0 - 1))>>,
               <<Item("A", Int_(1)), Item("B", Int_(2)), Item("A", Int_(2))>>,
               <<Item("A", Int_(1)), Item("B", Int_(1)), Item("A", Int_(1))>>}}

NextRollback ==
    \/ \E r \in Reqs, body \in RollbackBodies : PlaceOrder(r, body)
    \/ \E r \in Reqs : GuardedUpdate(r)
    \/ \E r \in Reqs : Compensate(r)
    \/ \E r \in Reqs : CreateOrder(r)

SpecRollback == Init /\ [][NextRollback]_vars

\* the first copy's order handler serving the route, requests racing
NextLegacy ==
    \/ \E r \in Reqs, body \in LegacyBodies : LegacyPlaceOrder(r, body)
    \/ \E r \in Reqs : LegacyGuardedUpdate(r)
    \/ \E r \in Reqs : Compensate(r)
    \/ \E r \in Reqs : LegacyCreateOrder(r)

SpecLegacy == Init /\ [][NextLegacy]_vars

\* two admins changing the status of the same order at once
NextStatusRace ==
    \/ \E body \in OneLineBodies : PlaceOrder("r1", body)
    \/ GuardedUpdate("r1")
    \/ CreateOrder("r1")
    \/ \E s \in SReqs, status \in validStatuses :
          UpdateStatus(s, AdminToken, "r1", status)
    \/ \E s \in SReqs : SaveStatus(s)

SpecStatusRace == InitHistory /\ [][NextStatusRace]_vars

\* one order request while an admin sets the stock of product A or deletes it
EditBodies ==
    {Body(GoodName, GoodEmail, GoodAddress, TRUE, l) :
        l \in {<<Item("A", Int_(1)), Item("bad", Int_(1))>>,
               <<Item("A", Int_(1)), Item("B", Int_(2))>>,
               <<Item("A", Int_(1))>>}}

StockEdit == [NoEdit EXCEPT !.stock = Int_(MaxStock)]

NextEdit ==
    \/ \E body \in EditBodies : PlaceOrder("r1", body)
    \/ GuardedUpdate("r1")
    \/ Compensate("r1")
    \/ CreateOrder("r1")
    \/ UpdateProductRead("A", StockEdit)
    \/ UpdateProductSave
    \/ DeleteProduct("A")

SpecEdit == InitAdmin /\ [][NextEdit]_vars

\* one request of three lines whose compensating updates may throw
NextFault ==
    \/ \E body \in RollbackBodies : PlaceOrder("r1", body)
    \/ GuardedUpdate("r1")
    \/ Compensate("r1")
    \/ CompensateThrows("r1")
    \/ CreateOrder("r1")

SpecFault == Init /\ [][NextFault]_vars

\* the racing requests of three lines when every datastore call returns: the
\* continuation of each awaited call of each request is eventually run
StepOf(r) == GuardedUpdate(r) \/ Compensate(r) \/ CreateOrder(r)

SpecLive ==
    /\ Init
    /\ [][NextRollback]_vars
    /\ \A r \in Reqs : WF_vars(StepOf(r))

\* ------------------------------------------------------------------- claims
Done(r) == req[r].pc = "done"

ItemsOf(r) == req[r].body.items.list

OrdersOf(r) == {k \in 1..Len(orders) : orders[k].req = r}

\* a quantity as the contract wants it: an integer from 1 to 1000
ContractQty(raw) == raw.k = "int" /\ raw.v >= 1 /\ raw.v <= 1000

\* the quantity of product p over a sequence of order lines
RECURSIVE QtyFor(_, _)
QtyFor(lines, p) ==
    IF lines = <<>> THEN 0
    ELSE (IF Head(lines).productId = p THEN Head(lines).quantity ELSE 0)
         + QtyFor(Tail(lines), p)

\* the sum of price x quantity over a sequence of order lines
RECURSIVE LineTotal(_)
LineTotal(lines) ==
    IF lines = <<>> THEN 0
    ELSE Head(lines).price * Head(lines).quantity + LineTotal(Tail(lines))

\* the quantity of product p in all the orders stored
RECURSIVE OrderedQty(_, _)
OrderedQty(os, p) ==
    IF os = <<>> THEN 0 ELSE QtyFor(Head(os).items, p) + OrderedQty(Tail(os), p)

\* the request's lines as sent: the product named and the quantity asked
AskedLines(r) ==
    [k \in 1..Len(ItemsOf(r)) |->
        [productId |-> IF ItemsOf(r)[k].id # "" THEN ItemsOf(r)[k].id
                       ELSE ItemsOf(r)[k].productId,
         quantity |-> ItemsOf(r)[k].quantity.v]]

IsDec(e) == e.op = "dec" /\ e.ok
IsInc(e) == e.op = "inc"

\* t is x rounded to two decimals (a multiple of 10 thousandths, half up)
IsRounded(t, x) == t % 10 = 0 /\ t - x <= 5 /\ x - t < 5

\* C1: with nothing else running, a request that ends on a failed reference
\* or stock check has created no order and every stock is what it was when
\* the request arrived.
C1_AtomicityUnderFailure ==
    \A r \in Reqs :
        (Done(r) /\ req[r].error \in {"productId", "stock"}) =>
            /\ OrdersOf(r) = {}
            /\ \A p \in ProdIds : products[p].stock = pre[r][p]

C1_Witness ==
    \E r \in Reqs :
        /\ Done(r) /\ req[r].error = "stock"
        /\ \E k \in 1..Len(log[r]) : IsInc(log[r][k]) /\ log[r][k].qty = 2

\* C2: a request whose quantities are integers from 1 to 1000 and that ends
\* with 201 has lowered each product's stock by the sum of the quantities asked
\* for it and has created one order, with the lines asked and a totalAmount
\* that is the sum of price x quantity over its lines rounded to two decimals.
C2_AtomicityUnderSuccess ==
    \A r \in Reqs :
        (/\ Done(r) /\ req[r].status = 201
         /\ \A k \in 1..Len(ItemsOf(r)) : ContractQty(ItemsOf(r)[k].quantity)) =>
            /\ \A p \in ProdIds :
                  pre[r][p] - products[p].stock = QtyFor(AskedLines(r), p)
            /\ Cardinality(OrdersOf(r)) = 1
            /\ \A k \in OrdersOf(r) :
                  /\ Len(orders[k].items) = Len(ItemsOf(r))
                  /\ \A j \in 1..Len(ItemsOf(r)) :
                        /\ orders[k].items[j].productId = AskedLines(r)[j].productId
                        /\ orders[k].items[j].quantity = AskedLines(r)[j].quantity
                  /\ IsRounded(orders[k].totalAmount, LineTotal(orders[k].items))

C2_Witness ==
    \E r \in Reqs :
        /\ Done(r) /\ req[r].status = 201
        /\ Len(ItemsOf(r)) = 2
        /\ \A k \in 1..2 : ContractQty(ItemsOf(r)[k].quantity)
        /\ \E k \in OrdersOf(r) : LineTotal(orders[k].items) % 10 # 0

\* C3: with order requests racing and no admin restocking, the quantity of a
\* product in the orders stored never exceeds the product's initial stock.
C3_NoOversell ==
    \A p \in ProdIds : OrderedQty(orders, p) <= stock0[p]

C3_Witness ==
    \E r1, r2 \in Reqs :
        /\ r1 # r2 /\ Done(r1) /\ Done(r2)
        /\ req[r1].status = 201 /\ req[r2].error = "stock"
        /\ Len(ItemsOf(r1)) = 2
        /\ ItemsOf(r1)[1].id = "A" /\ ItemsOf(r1)[2].id = "A"
        /\ ItemsOf(r2)[1].id = "A"
        /\ log[r2][1].op = "dec" /\ ~log[r2][1].ok
        /\ OrderedQty(orders, "A") = stock0["A"]

\* C4: every line of a stored order carries the name and price that the
\* guarded update reserving it returned, and the order's totalAmount is the
\* rounded sum over those lines: nothing of the client's name, price or
\* totalAmount is stored.
C4_PriceIntegrity ==
    \A k \in 1..Len(orders) :
        LET o == orders[k]
            decs == SelectSeq(log[o.req], IsDec)
        IN /\ Len(o.items) = Len(decs)
           /\ \A j \in 1..Len(decs) :
                 /\ o.items[j].name = decs[j].name
                 /\ o.items[j].price = decs[j].price
           /\ IsRounded(o.totalAmount, LineTotal(o.items))

\* C5: a request that ends with an error after a successful decrement has
\* issued one compensating increment for every item it decremented.
C5_CompensationOnEveryFailure ==
    \A r \in Reqs :
        (Done(r) /\ req[r].status >= 400 /\ SelectSeq(log[r], IsDec) # <<>>) =>
            Len(SelectSeq(log[r], IsInc)) = Len(SelectSeq(log[r], IsDec))

\* C6: a request with a line whose quantity is not an integer from 1 to 1000
\* ends with 400 and creates no order.
C6_QuantityRejected ==
    \A r \in Reqs :
        (Done(r) /\ \E k \in 1..Len(ItemsOf(r)) : ~ContractQty(ItemsOf(r)[k].quantity)) =>
            req[r].status = 400 /\ OrdersOf(r) = {}

\* C7: a request rejected for an invalid quantity or a malformed product id
\* has issued no guarded decrement.
C7_ValidationBeforeMutation ==
    \A r \in Reqs :
        (Done(r) /\ req[r].error \in {"quantity", "productId"}) =>
            \A k \in 1..Len(log[r]) : log[r][k].op # "dec"

\* emails of the bodies modelled that the address pattern does not match
MismatchedEmails ==
    {Str(<<"a", "b">>), Str(<<"a", "@", "b">>),
     Str(<<"a", " ", "@", "b", ".", "c">>), Str(<<"@", "b", ".", "c">>),
     Str(<<"a", "@", "b", ".">>)}

RequestLevelBad(b) ==
    \/ b.customerName \in {Undef, Str(<<>>)}
    \/ b.customerEmail \in {Undef, Str(<<>>)} \cup MismatchedEmails
    \/ b.address \in {Undef, Str(<<>>)}
    \/ ~b.items.arr
    \/ Len(b.items.list) = 0
    \/ Len(b.items.list) > 50

\* C8: a request with a missing or empty customerName, customerEmail or
\* address, an email the pattern does not match, items that are no non-empty
\* array or more than 50 items is answered 400 at once: no datastore call is
\* made, no stock changes and no order is created.
C8_RequestValidation ==
    \A r \in Reqs :
        (req[r].pc # "idle" /\ RequestLevelBad(req[r].body)) =>
            /\ Done(r) /\ req[r].status = 400
            /\ log[r] = <<>>
            /\ OrdersOf(r) = {}
            /\ \A p \in ProdIds : products[p].stock = pre[r][p]

C8_Witness ==
    \E r \in Reqs :
        /\ Done(r) /\ req[r].status = 400
        /\ Len(ItemsOf(r)) = 51
        /\ products["A"].stock >= 1
        /\ log[r] = <<>>

\* C9: a request has at most one order; the order exists exactly when the
\* request has been answered 201; and a request with an order has made one
\* successful guarded update per line, in the order of the lines, and then
\* the insert, and nothing else.
C9_NoPartialOrder ==
    \A r \in Reqs :
        /\ Cardinality(OrdersOf(r)) <= 1
        /\ (OrdersOf(r) # {}) <=> (Done(r) /\ req[r].status = 201)
        /\ \A k \in OrdersOf(r) :
              LET n == Len(ItemsOf(r)) IN
              /\ Len(orders[k].items) = n
              /\ Len(log[r]) = n + 1
              /\ \A j \in 1..n :
                    /\ IsDec(log[r][j])
                    /\ log[r][j].id = orders[k].items[j].productId
                    /\ log[r][j].qty = orders[k].items[j].quantity
              /\ log[r][n + 1].op = "insert"

C9_Witness ==
    \E r1, r2 \in Reqs :
        /\ Done(r1) /\ req[r1].status = 201 /\ Len(ItemsOf(r1)) = 2
        /\ Done(r2) /\ req[r2].status = 400
        /\ \E k \in 1..Len(log[r2]) : IsInc(log[r2][k])
        /\ Len(orders) = 1

\* C10: whatever order requests, their compensations and admin product
\* creations, edits and deletions do, every product's stock is at least 0.
C10_StockNonNegative ==
    \A p \in ProdIds : products[p].stock >= 0

C10_Witness ==
    \E r \in Reqs, p \in ProdIds :
        /\ products[p].st = "live" /\ products[p].stock = 0
        /\ adm.status = 200
        /\ \E k \in 1..Len(log[r]) : IsDec(log[r][k]) /\ log[r][k].id = p
        /\ \E k \in 1..Len(log[r]) : IsInc(log[r][k]) /\ log[r][k].id = p

\* a token that jwt.verify accepts and whose payload has type admin
IsAdminToken(t) == t.sent /\ t.valid /\ t.payload.type = "admin"

\* the step is the arrival of a status-update request at process s
StatusArrives(s) ==
    /\ sreq[s].pc = "idle"
    /\ sreq'[s] # sreq[s]
    /\ sreq'[s].op = "status"

\* C11: a status-update request with target pending that finds the order's
\* stored status delivered is rejected in that step, with 400 when the caller
\* is an admin (401 or 403 otherwise), and the stored orders, their status and
\* updatedAt included, are as before
C11_TransitionGuard ==
    [][\A s \in SReqs :
         (/\ StatusArrives(s)
          /\ sreq'[s].target = "pending"
          /\ \E k \in 1..Len(orders) :
                orders[k].req = sreq'[s].id /\ orders[k].status = "delivered")
         => /\ sreq'[s].pc = "idle"
            /\ sreq'[s].status =
                  IF IsAdminToken(sreq'[s].token) THEN 400
                  ELSE IF sreq'[s].token.sent THEN 403 ELSE 401
            /\ orders' = orders]_vars

C11_Witness ==
    \E s \in SReqs, k \in 1..Len(orders) :
        /\ sreq[s].pc = "idle" /\ sreq[s].op = "status"
        /\ IsAdminToken(sreq[s].token)
        /\ sreq[s].target = "pending" /\ sreq[s].status = 400
        /\ orders[k].req = sreq[s].id
        /\ orders[k].status = "delivered" /\ orders[k].updatedAt > 0

\* the four statuses of the contract
FourStatuses == {"pending", "confirmed", "delivered", "cancelled"}

\* the stored status of the order with this _id, "" if there is none
StoredStatus(os, id) ==
    IF \E k \in 1..Len(os) : os[k].req = id
    THEN os[CHOOSE k \in 1..Len(os) : os[k].req = id].status
    ELSE ""

\* C12: an admin's status update on an existing order with a target among the
\* four statuses, other than pending on a delivered order, is taken on and its
\* save stores the target and answers 200; a target outside the four statuses
\* is answered 400 and the orders stay as they were
C12_OtherTransitionsAccepted ==
    [][\A s \in SReqs :
         /\ (/\ StatusArrives(s)
             /\ IsAdminToken(sreq'[s].token)
             /\ StoredStatus(orders, sreq'[s].id) # "")
            => LET cur == StoredStatus(orders, sreq'[s].id)
                   tgt == sreq'[s].target
               IN /\ (tgt \in FourStatuses /\ ~(cur = "delivered" /\ tgt = "pending"))
                        => sreq'[s].pc = "save" /\ orders' = orders
                  /\ tgt \notin FourStatuses
                        => /\ sreq'[s].pc = "idle" /\ sreq'[s].status = 400
                           /\ orders' = orders
         /\ (sreq[s].pc = "save" /\ sreq'[s] # sreq[s])
            => /\ sreq'[s].pc = "idle" /\ sreq'[s].status = 200
               /\ StoredStatus(orders', sreq[s].id) = sreq[s].target]_vars

\* an order set to pending again by the last of MaxNow accepted updates
C12_Witness ==
    \E s \in SReqs, k \in 1..Len(orders) :
        /\ sreq[s].pc = "idle" /\ sreq[s].op = "status" /\ sreq[s].status = 200
        /\ orders[k].req = sreq[s].id
        /\ orders[k].status = sreq[s].target
        /\ sreq[s].target = "pending"
        /\ orders[k].updatedAt = MaxNow

\* C13: the stored status of every order is one of the four statuses, and an
\* order enters the collection with status pending, whatever status its
\* request body carries
C13_PendingAtCreation ==
    /\ [](\A k \in 1..Len(orders) : orders[k].status \in FourStatuses)
    /\ [][\A k \in 1..Len(orders') :
            StoredStatus(orders, orders'[k].req) = ""
                => orders'[k].status = "pending"]_vars

\* an order stored as pending for a request whose body said delivered, and
\* moved to another status later
C13_Witness ==
    \E k \in 1..Len(orders) :
        /\ req[orders[k].req].body.status = "delivered"
        /\ orders[k].status = "cancelled"

\* C15: a step that deletes a category leaves no product whose category
\* field is the name of the category deleted
C15_CategoryDeleteBlocked ==
    [][\A c \in CatIds :
         (cats[c].st = "live" /\ cats'[c].st = "gone")
            => \A p \in ProdIds :
                 ~(products'[p].st = "live" /\ products'[p].category = cats[c].name)]_vars

\* the snapshot part of an order: everything but status and updatedAt
Snapshot(o) ==
    [customerName |-> o.customerName, customerEmail |-> o.customerEmail,
     address |-> o.address, items |-> o.items, totalAmount |-> o.totalAmount]

\* C14: an order that is in the collection before and after a step has the
\* same customer fields, line items and totalAmount after it as before
C14_OrdersImmutable ==
    [][\A k \in 1..Len(orders), j \in 1..Len(orders') :
         orders[k].req = orders'[j].req
            => Snapshot(orders'[j]) = Snapshot(orders[k])]_vars

\* an order whose status was changed after its product was renamed and
\* repriced, or deleted
C14_Witness ==
    \E k \in 1..Len(orders) :
        /\ orders[k].status # "pending" /\ orders[k].updatedAt > 0
        /\ Len(orders[k].items) > 0
        /\ products[orders[k].items[1].productId].name # orders[k].items[1].name

\* a token that jwt.verify accepts, of type admin and role superadmin
IsSuperToken(t) == IsAdminToken(t) /\ t.payload.role = "superadmin"

OrderIds(os) == {os[k].req : k \in 1..Len(os)}

\* an order leaves the collection only in the step of a delete request that
\* carries a superadmin's token
DeletedBySuperadmin ==
    \A id \in OrderIds(orders) \ OrderIds(orders') :
        \E s \in SReqs :
            /\ sreq'[s] # sreq[s]
            /\ sreq'[s].op = "delete" /\ sreq'[s].id = id
            /\ sreq'[s].status = 200
            /\ IsSuperToken(sreq'[s].token)

\* a stored status or updatedAt changes only in the save of a status request
\* that carries an admin's token
ChangedByAdmin ==
    \A k \in 1..Len(orders), j \in 1..Len(orders') :
        (/\ orders[k].req = orders'[j].req
         /\ \/ orders[k].status # orders'[j].status
            \/ orders[k].updatedAt # orders'[j].updatedAt)
        => \E s \in SReqs :
              /\ sreq[s].pc = "save" /\ sreq[s].id = orders[k].req
              /\ sreq'[s].pc = "idle"
              /\ IsAdminToken(sreq[s].token)

\* an order enters the collection without any token-bearing request stepping
PlacedWithoutToken == OrderIds(orders') \ OrderIds(orders) # {} => sreq' = sreq

\* C16: orders are deleted only with a superadmin's token, their status is
\* changed only with an admin's token, they are placed with no token, and a
\* response that holds orders goes only to a request with an admin's token
C16_OrderAuthorization ==
    /\ [](\A s \in SReqs : sreq[s].list # <<>> => IsAdminToken(sreq[s].token))
    /\ [][DeletedBySuperadmin /\ ChangedByAdmin /\ PlacedWithoutToken]_vars

\* a valid token of type customer
IsCustomerToken(t) == t.sent /\ t.valid /\ t.payload.type = "customer"

\* C16, amended: as C16, except that a response that holds orders also goes
\* to a request with a customer's token, and then holds only orders whose
\* customerEmail is that customer's email
C16_Amended ==
    /\ [](\A s \in SReqs :
            sreq[s].list # <<>>
               => \/ IsAdminToken(sreq[s].token)
                  \/ IsCustomerToken(sreq[s].token) /\ sreq[s].op = "mine")
    /\ [][/\ DeletedBySuperadmin /\ ChangedByAdmin /\ PlacedWithoutToken
          /\ \A s \in SReqs :
               (sreq'[s] # sreq[s] /\ IsCustomerToken(sreq'[s].token))
                  => \A n \in 1..Len(sreq'[s].list) :
                        \E k \in 1..Len(orders) :
                           /\ orders[k].req = sreq'[s].list[n]
                           /\ orders[k].customerEmail =
                                 Customers[sreq'[s].token.payload.id].email]_vars

\* a customer was sent their order, an admin who is no superadmin changed its
\* status and was refused its deletion
C16_Witness ==
    /\ \E k \in 1..Len(orders) : orders[k].status = "delivered"
    /\ sreq["s1"].op = "delete" /\ sreq["s1"].token = AdminToken
    /\ sreq["s1"].status = 403
    /\ sreq["s2"].op = "mine" /\ sreq["s2"].token = CustomerToken
    /\ sreq["s2"].status = 200 /\ sreq["s2"].list # <<>>

\* C17: at most one admin has role superadmin, and an admin created when an
\* admin exists already has role admin and was registered by a request with a
\* superadmin's token
C17_FirstAdminOnly ==
    /\ [](Cardinality({k \in 1..Len(admins) : admins[k].role = "superadmin"}) <= 1)
    /\ [][(Len(admins') > Len(admins) /\ Len(admins) > 0)
            => /\ admins'[Len(admins')].role = "admin"
               /\ \E g \in RegReqs :
                     /\ reg[g].pc = "create" /\ reg'[g].status = 201
                     /\ IsSuperToken(reg[g].token)]_vars

\* the body passes the presence check on customerName, customerEmail, address
PresencePasses(b) ==
    Truthy(b.customerName) /\ Truthy(b.customerEmail) /\ Truthy(b.address)

\* C18: a request handled alone whose body passes the presence check ends
\* either with one order and every stock lowered by the order's quantity of
\* that product, or with no order and every stock as it was at arrival
C18_TwoOutcomes ==
    \A r \in Reqs :
        (Done(r) /\ PresencePasses(req[r].body)) =>
            \/ /\ Cardinality(OrdersOf(r)) = 1
               /\ \A k \in OrdersOf(r), p \in ProdIds :
                     products[p].stock = pre[r][p] - QtyFor(orders[k].items, p)
            \/ /\ OrdersOf(r) = {}
               /\ \A p \in ProdIds : products[p].stock = pre[r][p]

\* the request ended on the error of a line item's check
LineItemFailed(r) ==
    Done(r) /\ req[r].error \in {"quantity", "productId", "stock"}

\* C19: the compensating increments a request has issued repeat, one for one
\* and in the same order, the product and quantity of its successful
\* decrements; once an increment is issued no further decrement is; when the
\* error of a line item's check is answered there is one increment for every
\* decrement; and a request that has not failed has issued none
C19_CompensationInOrder ==
    \A r \in Reqs :
        LET decs == SelectSeq(log[r], IsDec)
            incs == SelectSeq(log[r], IsInc)
        IN /\ Len(incs) <= Len(decs)
           /\ \A j \in 1..Len(incs) :
                 incs[j].id = decs[j].id /\ incs[j].qty = decs[j].qty
           /\ \A j \in 1..Len(log[r]) :
                 (j > 1 /\ IsInc(log[r][j - 1])) => IsInc(log[r][j])
           /\ LineItemFailed(r) => Len(incs) = Len(decs)
           /\ incs # <<>> => req[r].pc = "rollback" \/ LineItemFailed(r)

\* a request that failed at its third line after decrementing two products
C19_Witness ==
    \E r \in Reqs :
        /\ LineItemFailed(r) /\ req[r].status = 400
        /\ Len(SelectSeq(log[r], IsInc)) = 2
        /\ SelectSeq(log[r], IsInc)[1].id # SelectSeq(log[r], IsInc)[2].id

\* C20: an order that was ever stored as delivered is not pending
C20_NeverPendingAgain ==
    \A k \in 1..Len(orders) :
        orders[k].req \in everDelivered => orders[k].status # "pending"

\* C21: with status updates racing on one order, no step writes pending on an
\* order whose stored status is delivered when the write happens.
C21_GuardUnderConcurrency ==
    [][\A k \in 1..Len(orders) :
          (orders[k].status = "delivered" /\ k <= Len(orders')) =>
              orders'[k].status # "pending"]_vars

\* the quantity of product p that the successful decrements of a log took
RECURSIVE DecQty(_, _)
DecQty(l, p) ==
    IF l = <<>> THEN 0
    ELSE (IF IsDec(Head(l)) /\ Head(l).id = p THEN Head(l).qty ELSE 0)
         + DecQty(Tail(l), p)

\* the guarded update of entry e failed although the product exists and the
\* initial stock, less what the request took itself, covered the quantity
RejectedWithStock(r, e) ==
    /\ e.op = "dec" /\ ~e.ok
    /\ products[e.id].st = "live"
    /\ stock0[e.id] - DecQty(log[r], e.id) >= e.qty

\* C22: with order requests racing and no admin activity, a request is refused
\* for stock that the initial stock covered only when another request has
\* decremented that product; and once every request has ended with 400 and no
\* order, each stock is the initial one again. The witness is the interleaving
\* claimed: R2 refused for a product that R1 held and gave back afterwards.
C22_PartialStateObservable ==
    /\ \A r \in Reqs : \A k \in 1..Len(log[r]) :
          RejectedWithStock(r, log[r][k]) =>
              \E r1 \in Reqs \ {r} : \E j \in 1..Len(log[r1]) :
                  IsDec(log[r1][j]) /\ log[r1][j].id = log[r][k].id
    /\ (\A r \in Reqs : Done(r) /\ req[r].status = 400) =>
          \A p \in ProdIds : products[p].stock = stock0[p]

C22_Witness ==
    \E r1, r2 \in Reqs, p \in ProdIds :
        /\ r1 # r2 /\ Done(r1) /\ Done(r2) /\ orders = <<>>
        /\ req[r1].status = 400 /\ req[r2].status = 400 /\ req[r2].error = "stock"
        /\ Len(log[r2]) = 1 /\ RejectedWithStock(r2, log[r2][1]) /\ log[r2][1].id = p
        /\ pre[r2][p] >= log[r2][1].qty
        /\ products[p].stock >= log[r2][1].qty
        /\ \E j, k \in 1..Len(log[r1]) :
              /\ j < k /\ IsDec(log[r1][j]) /\ log[r1][j].id = p
              /\ IsInc(log[r1][k]) /\ log[r1][k].id = p

\* the stock product p has once the admin is idle again, had no order request
\* run: the stock the admin's accepted edit set, else the initial one
StockWithoutRequest(p) ==
    IF p = "A" /\ adm.status = 200 THEN ParseInt(StockEdit.stock).v ELSE stock0[p]

\* C23: once a request that failed and compensated has ended and the admin is
\* idle, every product that exists has the stock it would have without the
\* request, also when the admin's stock edit or deletion fell between the
\* decrement and the compensating increment.
C23_NoNetEffect ==
    (Done("r1") /\ req["r1"].status = 400 /\ adm.pc = "idle") =>
        \A p \in ProdIds :
            products[p].st = "live" => products[p].stock = StockWithoutRequest(p)

\* C24: a request that has ended after starting its rollback has issued one
\* compensating increment for every item it decremented, also when one of the
\* increments threw or matched no product.
C24_CompensationContinues ==
    \A r \in Reqs :
        (Done(r) /\ \E k \in 1..Len(log[r]) : IsInc(log[r][k])) =>
            \A j \in 1..Len(SelectSeq(log[r], IsDec)) :
                /\ j <= Len(SelectSeq(log[r], IsInc))
                /\ SelectSeq(log[r], IsInc)[j].id = SelectSeq(log[r], IsDec)[j].id

\* a guarded update, matched or not
IsGuarded(e) == e.op = "dec"

\* the guarded updates request r has issued, in the order issued
GuardedOf(r) == SelectSeq(log[r], IsGuarded)

\* C25: the guarded updates a request has issued are for its lines 1, 2, ...
\* in the order sent, each after the one before it matched; a step issues at
\* most one datastore call per request; and after a guarded update that did not
\* match the request issues no other.
C25_SequentialItems ==
    /\ [](\A r \in Reqs :
            /\ \A k \in 1..Len(GuardedOf(r)) :
                  /\ k <= Len(ItemsOf(r))
                  /\ GuardedOf(r)[k].id = ProdIdOf(ItemsOf(r)[k])
                  /\ GuardedOf(r)[k].qty = QtyOf(ItemsOf(r)[k]).v
                  /\ k < Len(GuardedOf(r)) => GuardedOf(r)[k].ok
            /\ \A j \in 1..Len(log[r]) :
                  (j > 1 /\ IsGuarded(log[r][j]))
                      => IsGuarded(log[r][j - 1]) /\ log[r][j - 1].ok)
    /\ [][\A r \in Reqs : Len(log'[r]) <= Len(log[r]) + 1]_vars

\* a request of three lines whose second guarded update did not match: the
\* third line was never tried
C25_Witness ==
    \E r \in Reqs :
        /\ Done(r) /\ req[r].error = "stock" /\ Len(ItemsOf(r)) = 3
        /\ Len(GuardedOf(r)) = 2 /\ ~GuardedOf(r)[2].ok
        /\ Len(log[r]) = 3 /\ IsInc(log[r][3])

\* the request has been answered with an error
Failed(rq) == rq.pc = "done" /\ rq.status >= 400

Succeeded(rq) == rq.pc = "done" /\ rq.status = 201

\* one move of a request through the phases: Validating (idle, the checks of
\* the first step), Reserving (update), Committing (create), Compensating
\* (rollback; an empty one when nothing was decremented), Succeeded, Failed
PhaseStep(a, b) ==
    \/ a.pc = "idle" /\ (b.pc = "update" \/ Failed(b))
    \/ a.pc = "update" /\ (b.pc \in {"update", "create", "rollback"} \/ Failed(b))
    \/ a.pc = "rollback" /\ (b.pc = "rollback" \/ Failed(b))
    \/ a.pc = "create" /\ Succeeded(b)

\* C26: a request moves only Validating -> Reserving -> Committing ->
\* Succeeded or Validating/Reserving -> Compensating -> Failed; the Order
\* insert is its last datastore call and no compensating increment precedes it;
\* a request that has Succeeded or Failed does nothing more.
C26_PhaseOrder ==
    /\ [][\A r \in Reqs :
            /\ req'[r] # req[r] => PhaseStep(req[r], req'[r])
            /\ log'[r] # log[r] => req'[r] # req[r]]_vars
    /\ [](\A r \in Reqs : \A j \in 1..Len(log[r]) :
            log[r][j].op = "insert" =>
                /\ j = Len(log[r])
                /\ \A k \in 1..j : ~IsInc(log[r][k]))

IsInsert(e) == e.op = "insert"

\* C27: when every datastore call returns, a request that has arrived is
\* eventually answered, whatever the other request does; it has then issued
\* at most N guarded updates, N - 1 compensating updates and one insert for
\* its N <= 50 lines; and while it is not answered its next step is enabled:
\* it waits for no other request.
C27_Terminates ==
    /\ \A r \in Reqs : (req[r].pc # "idle") ~> Done(r)
    /\ [](\A r \in Reqs :
            /\ req[r].pc \notin {"idle", "done"} => ENABLED StepOf(r)
            /\ log[r] # <<>> => Len(ItemsOf(r)) <= MaxItems
            /\ req[r].pc # "idle" =>
                  /\ Len(GuardedOf(r)) <= Len(ItemsOf(r))
                  /\ Len(SelectSeq(log[r], IsInc)) <= Len(ItemsOf(r)) - 1
                  /\ Len(SelectSeq(log[r], IsInsert)) <= 1)

\* both requests answered, one after three guarded updates and two
\* compensating ones
C27_Witness ==
    \E r1, r2 \in Reqs :
        /\ r1 # r2 /\ Done(r1) /\ Done(r2)
        /\ Len(GuardedOf(r1)) = 3 /\ Len(SelectSeq(log[r1], IsInc)) = 2
        /\ log[r2] # <<>>

\* the request has tried to reserve a product that does not exist
AskedMissing(r) ==
    \E k \in 1..Len(log[r]) :
        log[r][k].op = "dec" /\ products[log[r][k].id].st # "live"

\* C28: with nothing else running, a request with a line whose well-formed
\* product id matches no product ends with the 400 of insufficient stock,
\* creates no order and leaves every stock as it was when the request arrived:
\* what it decremented before that line is compensated.
C28_MissingProduct ==
    \A r \in Reqs :
        (Done(r) /\ AskedMissing(r)) =>
            /\ req[r].status = 400 /\ req[r].error = "stock"
            /\ OrdersOf(r) = {}
            /\ Len(SelectSeq(log[r], IsInc)) = Len(SelectSeq(log[r], IsDec))
            /\ \A p \in ProdIds : products[p].stock = pre[r][p]

\* a request whose second line named a product that does not exist, after
\* its first line was reserved
C28_Witness ==
    \E r \in Reqs :
        /\ Done(r) /\ AskedMissing(r) /\ req[r].status = 400
        /\ Len(log[r]) = 3
        /\ IsDec(log[r][1]) /\ ~log[r][2].ok /\ IsInc(log[r][3])
        /\ products[log[r][2].id].st # "live"

\* C29: a step of a status change or of an order deletion leaves every product
\* as it is; so the stock an order reserved stays reserved whatever becomes of
\* the order: once a request has stored its order, each stock is the initial
\* one less the quantities the request decremented, also after the order is
\* cancelled or deleted.
C29_StockNotReturned ==
    /\ [][sreq' # sreq => products' = products]_vars
    /\ [](\A r \in Reqs :
            (Done(r) /\ req[r].status = 201) =>
                \A p \in ProdIds :
                    products[p].stock = stock0[p] - DecQty(log[r], p))

\* the order was stored and has been deleted: its stock is still taken
C29_Witness ==
    /\ Done("r1") /\ req["r1"].status = 201 /\ orders = <<>>
    /\ sreq["s1"].op = "delete" /\ sreq["s1"].status = 200
    /\ products["A"].stock = stock0["A"] - 1

\* C30: every product's category field is the name of a category that exists
C30_CategoryIntegrity ==
    \A p \in ProdIds :
        products[p].st = "live" =>
            \E c \in CatIds : cats[c].st = "live" /\ cats[c].name = products[p].category

====
